---- MODULE Spec2Model ----
(***************************************************************************)
(* The concurrent ed2k digest engine of go-ed2k (src/unnamed/part_000,     *)
(* lines 98-289), and the older synchronous engine (lines 1-96), which is  *)
(* given the same calls in step with it.                                   *)
(*                                                                         *)
(* One caller goroutine uses the hash.Hash API (Write, Sum, Reset, Close). *)
(* hashLoop is a goroutine of its own, every md4SumAsync starts one more,  *)
(* and the quit case of hashLoop starts a flushing goroutine.  All         *)
(* channels are unbuffered, so every communication is a rendezvous: one    *)
(* action in which the sender and the receiver move together.  The local   *)
(* steps a goroutine takes between two blocking points are part of the     *)
(* action that ends at the later one.                                      *)
(*                                                                         *)
(* A byte is a triple: <<0, <<>>, b>> is the input byte b, and             *)
(* <<1, data, k>> is byte k of the MD4 digest of data.  MD4 itself is an   *)
(* external package; it is modelled as a collision-free function.          *)
(***************************************************************************)
EXTENDS Integers, Sequences, FiniteSets, TLC

\* The chunk size.  The program's value is 9728000 (line 121); the model
\* scales it down, every comparison against it is kept.
BlockSize == 2

\* md4.Size, the length of one digest in bytes (line 118).
Size == 16

\* Input bytes are 0..MaxByte.
MaxByte == 1

\* The most bytes written between two Resets.
MaxBytes == 5

\* The same, and the most bytes in one Write, in the runs that fill
\* hashLoop's queue: their input bytes are all 0.
MaxBytesLong == 7

\* The most bytes in one Write.
MaxWrite == 3

\* The most Reset calls in one run.
MaxResets == 1

\* The most Close calls that stop a hashLoop in one run.
MaxCloses == 1

\* The most Close calls in a row on an engine that is closed.
MaxCloseAgain == 2

\* The most Sum calls with no other call in between.
MaxSums == 2

\* runtime.GOMAXPROCS(0) is drawn from 1..MaxProcs.
MaxProcs == 1

VARIABLES
    endWithNullChunk,   \* digest.endWithNullChunk
    currentChunk,       \* digest.currentChunk: its bytes
    chunkCap,           \* cap(digest.currentChunk): BlockSize, or 0 for nil
    chunkBuf,           \* the array digest.currentChunk is a slice of, or NilBuf
    quitLoop,           \* TRUE iff digest.quitLoop # nil
    maxProcs,           \* runtime.GOMAXPROCS(0)
    loopPC,             \* hashLoop: "select" | "sendList" | "quitNotify" | "quitAck" | "exited"
    notify,             \* hashLoop's local notify
    hashList,           \* hashLoop's local hashList
    runningHashes,      \* hashLoop's local runningHashes: the md4SumAsync goroutines, in order
    flushers,           \* the flushing goroutines (lines 174-178): for each, the goroutines it
                        \* has yet to receive from: their array, and whether they have
                        \* computed their digest
    op,                 \* the caller's current (or last) call
    pc,                 \* the caller: "ret" (returned) | "send" | "return" | "req" | "recv" | "quit" | "ack"
    p,                  \* the argument of the call in progress
    i,                  \* Write's i
    pending,            \* the goroutine Write has started and not yet sent on addHash
    stream,             \* history: the bytes given to Write since the last Reset or Close
    handed,             \* history: the chunks Write handed to md4SumAsync since the last Reset or Close
    epoch,              \* history: the number of Reset calls
    closes,             \* history: the number of Close calls that stopped a hashLoop
    again,              \* history: the number of Close calls on the closed engine since
                        \* the Close that stopped its hashLoop
    loops,              \* history: the number of hashLoop goroutines that have not returned
    born,               \* history: what started the last hashLoop: "New", "Reset" with one
                        \* running (line 191), or "Reopen": Reset with none (line 194)
    sync,               \* the synchronous engine (lines 17-22) given the same calls:
                        \* its currentChunk and hashList and what its last Write
                        \* returned; <<>> once the caller has called Close, which it lacks
    hist,               \* history: the Sum calls returned since the last other call
    atCall,             \* history, while a Sum is in progress: hashLoop's hashList when it was
                        \* called, and whether since then a digest goroutine has computed its
                        \* digest before one started earlier
    inputs,             \* the bytes the caller writes (fixed in a run)
    limit,              \* the most bytes the caller writes between two Resets (fixed in a run)
    maxWrite            \* the most bytes in one Write (fixed in a run)

vars == <<endWithNullChunk, currentChunk, chunkCap, chunkBuf, quitLoop, maxProcs,
          loopPC, notify, hashList, runningHashes, flushers, op, pc, p, i, pending,
          stream, handed, epoch, closes, again, loops, born, sync, hist, atCall,
          inputs, limit, maxWrite>>

engineVars == <<endWithNullChunk, currentChunk, chunkCap, chunkBuf, quitLoop, maxProcs>>
loopVars == <<loopPC, notify, hashList, runningHashes>>
bounds == <<inputs, limit, maxWrite>>
started == <<again, loops, born>>
histVars == <<stream, handed, epoch, closes, started, sync, hist, atCall, bounds>>

Min(a, b) == IF a < b THEN a ELSE b

RawByte(b) == <<0, <<>>, b>>

Bytes(top) == {RawByte(b) : b \in 0..top}

RECURSIVE SeqsUpTo(_, _)
SeqsUpTo(S, n) ==
    IF n = 0 THEN {<<>>}
    ELSE LET shorter == SeqsUpTo(S, n - 1)
         IN shorter \cup {Append(s, x) : s \in {t \in shorter : Len(t) = n - 1}, x \in S}

\* The digest of data: Size bytes, a different sequence for different data.
md4(data) == [k \in 1..Size |-> <<1, data, k>>]

\* md4Sum (lines 276-280): hash.Hash.Sum(list) appends the digest to list.
md4Sum(data, list) == list \o md4(data)

\* md4SumAsync (lines 282-288): a goroutine that computes the digest of data,
\* a slice of the array buf, and then blocks sending it on its channel.  epoch
\* and idx are history: the Resets before it and its place among the chunks
\* handed off since.
md4SumAsync(data, buf) ==
    [data |-> data, buf |-> buf, ready |-> FALSE, epoch |-> epoch,
     idx |-> Len(handed) + 1]

----------------------------------------------------------------------------
(* The arrays behind the chunks *)

\* An array is named by when it was made: <<e, k>> is the one made in the
\* e-th Reset (New is the 0-th), or after the k-th hand-off since.  NilBuf is
\* the array of a nil slice (line 214).
NilBuf == <<-1, 0>>

\* The arrays a sequence of goroutines holds.
BufsOf(gs) == {gs[k].buf : k \in 1..Len(gs)}

\* The arrays the digest goroutines hold that have not ended: a goroutine
\* keeps its data until its send on its channel is received.
HeldBufs ==
    BufsOf(pending) \cup BufsOf(runningHashes)
        \cup UNION {BufsOf(flushers[f]) : f \in 1..Len(flushers)}

SameChunk(old, e, k) == old

\* make([]byte, 0, BlockSize), lines 189 and 245: another array than old, the
\* one the slice was of.
MakeChunk(old, e, k) == <<e, k>>

----------------------------------------------------------------------------
(* Write, lines 237-249 *)

CopyCountIgnoresFill(chunk, cap, rest) == Min(cap, rest)

\* copy() at line 239: as many bytes as fit and are there.
CopyCount(chunk, cap, rest) == Min(cap - Len(chunk), rest)

HandOffWhenFull(chunk, cap, rest) == Len(chunk) = cap

\* Line 242: the chunk is handed off when it is full and input remains.
HandOff(chunk, cap, rest) == Len(chunk) = cap /\ rest > 0

\* One iteration of the loop of Write on the argument q from index i0, up to
\* the send on addHash (line 243) or the end of the loop (line 238).
WriteIter(chunk0, cap, buf, i0, q) ==
    IF i0 < Len(q)
    THEN LET count == CopyCount(chunk0, cap, Len(q) - i0)
             chunk == chunk0 \o SubSeq(q, i0 + 1, i0 + count)
             j == i0 + count
         IN /\ currentChunk' = chunk
            /\ i' = j
            /\ IF HandOff(chunk, cap, Len(q) - j)
               THEN /\ pending' = <<md4SumAsync(chunk, buf)>>
                    /\ handed' = Append(handed, chunk)
                    /\ pc' = "send"
               ELSE /\ pending' = <<>>
                    /\ handed' = handed
                    /\ pc' = "return"
    ELSE /\ currentChunk' = chunk0
         /\ i' = i0
         /\ pending' = <<>>
         /\ handed' = handed
         /\ pc' = "return"

----------------------------------------------------------------------------
(* hashLoop, lines 139-186 *)

HashLoopKeepsList(last) == [notify |-> FALSE, hashList |-> last, runningHashes |-> <<>>]

\* The locals of a hashLoop that starts (lines 140-145); last is the list the
\* hashLoop before it ended with, which is gone with it.
HashLoopStart(last) == [notify |-> FALSE, hashList |-> <<>>, runningHashes |-> <<>>]

AddHashAlways(l, procs) == TRUE

\* Lines 149-155: addHash is nil, so Write blocks, with 2*maxProcs running.
AddHashOpen(l, procs) == ~(l > 0 /\ l >= 2 * procs)

NextHashBelowCap(l, procs) == l > 0 /\ l < 2 * procs

\* Lines 150, 156: nextHash is the head of runningHashes when there is one.
NextHashOpen(l, procs) == l > 0

NextHashLast(running) == Len(running)

\* Line 156: the channel hashLoop receives a digest from.
NextHashIndex(running) == 1

RunningKept(running) == running

\* Line 169: the goroutine hashLoop has received from leaves the queue.
RunningAfterNext(running) == Tail(running)

NotifyRegardless(l, n) == n

\* Line 157: the list is sent when nothing is running and a Sum asked.
NotifyNow(l, n) == l = 0 /\ n

HashListHandedOver(list) == <<>>

\* Lines 159-161: a copy is sent; hashLoop keeps its list.
HashListAfterSend(list) == list

\* From the top of the loop to the next blocking point: the send of line 161
\* or the select of line 164.
LoopTop(running, n) == IF NotifyNow(Len(running), n) THEN "sendList" ELSE "select"

FlushReceivesNone(waiting) == FALSE

\* Lines 175-177: the flushing goroutine receives from the channels in the
\* order of runningHashes; waiting are the goroutines it has yet to receive
\* from.
FlushReceives(waiting) == waiting[1].ready

----------------------------------------------------------------------------
(* Reset and Close, lines 188-217 *)

ResetAlwaysWaits(quit) == TRUE

\* Line 191: Reset stops the hashLoop when there is one.
ResetWaits(quit) == quit

CloseStopsAlways(quit) == TRUE

\* Line 209: Close stops the hashLoop when there is one, and does nothing
\* else.
CloseStops(quit) == quit

ChunkKeptAfterClose(chunk, cap, buf) == [chunk |-> chunk, cap |-> cap, buf |-> buf]

\* Line 214: d.currentChunk = nil.
ChunkAfterClose(chunk, cap, buf) == [chunk |-> <<>>, cap |-> 0, buf |-> NilBuf]

----------------------------------------------------------------------------
(* Sum, lines 251-270 *)

SumIgnoresLegacyTail(null, chunk, cap, list, extra) ==
    IF null /\ Len(chunk) = cap
    THEN md4Sum(md4Sum(chunk, list), extra)
    ELSE IF Len(list) = 0
         THEN md4Sum(chunk, <<>>)
         ELSE md4Sum(IF Len(chunk) > 0 THEN md4Sum(chunk, list) ELSE list, extra)

SumDropsExtra(null, chunk, cap, list, extra) ==
    IF null /\ Len(chunk) = cap
    THEN md4Sum(md4Sum(<<>>, md4Sum(chunk, list)), <<>>)
    ELSE IF Len(list) = 0
         THEN md4Sum(chunk, <<>>)
         ELSE md4Sum(IF null \/ Len(chunk) > 0 THEN md4Sum(chunk, list) ELSE list, <<>>)

\* Lines 257-269, on the locals currentChunk and hashList of Sum.
SumResult(null, chunk, cap, list, extra) ==
    LET full == null /\ Len(chunk) = cap
        list1 == IF full THEN md4Sum(chunk, list) ELSE list
        chunk1 == IF full THEN <<>> ELSE chunk
    IN IF ~full /\ Len(list) = 0
       THEN md4Sum(chunk, <<>>)
       ELSE md4Sum(IF null \/ Len(chunk1) > 0 THEN md4Sum(chunk1, list1) ELSE list1,
                   extra)

SumTruncatesChunk(null, chunk, cap) == IF null /\ Len(chunk) = cap THEN <<>> ELSE chunk

\* Lines 252 and 259: Sum reslices its local currentChunk; d.currentChunk is
\* as it was.
SumLeavesChunk(null, chunk, cap) == chunk

----------------------------------------------------------------------------
(* The synchronous engine, lines 17-96 *)

\* Reset (lines 24-32), and so New (lines 37-42).
SyncReset == [currentChunk |-> <<>>, hashList |-> <<>>, i |-> 0]

\* Write (lines 47-58) from index i0 of q: the digest when it returns, with
\* the i it returns.  cap(d.currentChunk) is BlockSize (line 25).
RECURSIVE SyncWriteFrom(_, _, _)
SyncWriteFrom(d, i0, q) ==
    IF i0 < Len(q)
    THEN LET count == CopyCount(d.currentChunk, BlockSize, Len(q) - i0)
             chunk == d.currentChunk \o SubSeq(q, i0 + 1, i0 + count)
             j == i0 + count
         IN IF HandOff(chunk, BlockSize, Len(q) - j)
            THEN SyncWriteFrom([currentChunk |-> <<>>,
                                hashList |-> md4Sum(chunk, d.hashList),
                                i |-> j], j, q)
            ELSE SyncWriteFrom([currentChunk |-> chunk, hashList |-> d.hashList,
                                i |-> j], j, q)
    ELSE [d EXCEPT !.i = i0]

SyncWrite(d, q) == SyncWriteFrom(d, 0, q)

\* The synchronous engine's Sum (lines 60-80): it works on a copy of the
\* digest, and the digest is as it was.
SyncSum(null, chunk, list, extra) ==
    LET full == null /\ Len(chunk) = BlockSize
        list1 == IF full THEN md4Sum(chunk, list) ELSE list
        chunk1 == IF full THEN <<>> ELSE chunk
    IN IF ~full /\ Len(list) = 0
       THEN md4Sum(chunk, <<>>)
       ELSE md4Sum(IF null \/ Len(chunk1) > 0 THEN md4Sum(chunk1, list1) ELSE list1,
                   extra)

----------------------------------------------------------------------------
(* A second engine, run on its own *)

\* Write(q) (lines 237-249) on an engine with nothing in flight, every chunk
\* it hands off being retired by hashLoop (lines 165-169) before it goes on:
\* the engine's currentChunk and hashLoop's hashList when Write returns.
RECURSIVE SerialWrite(_, _, _, _)
SerialWrite(chunk0, list, i0, q) ==
    IF i0 < Len(q)
    THEN LET count == CopyCount(chunk0, BlockSize, Len(q) - i0)
             chunk == chunk0 \o SubSeq(q, i0 + 1, i0 + count)
             j == i0 + count
         IN IF HandOff(chunk, BlockSize, Len(q) - j)
            THEN SerialWrite(<<>>, list \o md4Sum(chunk, <<>>), j, q)
            ELSE SerialWrite(chunk, list, j, q)
    ELSE [chunk |-> chunk0, list |-> list]

\* New(null), Write(q), Sum(extra) on that engine.
SerialSum(null, q, extra) ==
    LET e == SerialWrite(<<>>, <<>>, 0, q)
    IN SumResult(null, e.chunk, BlockSize, e.list, extra)

----------------------------------------------------------------------------
(* The state after New (lines 228-232): Reset has run on the zero digest. *)

InitWith(top, most, write) ==
    /\ endWithNullChunk \in BOOLEAN
    /\ maxProcs \in 1..MaxProcs
    /\ currentChunk = <<>>
    /\ chunkCap = BlockSize
    /\ chunkBuf = MakeChunk(NilBuf, 0, 0)
    /\ quitLoop = TRUE
    /\ loopPC = "select"
    /\ notify = HashLoopStart(<<>>).notify
    /\ hashList = HashLoopStart(<<>>).hashList
    /\ runningHashes = HashLoopStart(<<>>).runningHashes
    /\ flushers = <<>>
    /\ op = "New"
    /\ pc = "ret"
    /\ p = <<>>
    /\ i = 0
    /\ pending = <<>>
    /\ stream = <<>>
    /\ handed = <<>>
    /\ epoch = 0
    /\ closes = 0
    /\ again = 0
    /\ loops = 1
    /\ born = "New"
    /\ sync = SyncReset
    /\ hist = <<>>
    /\ atCall = <<>>
    /\ inputs = Bytes(top)
    /\ limit = most
    /\ maxWrite = write

Init == InitWith(MaxByte, MaxBytes, MaxWrite)

\* Longer streams of one byte value: enough chunks to fill hashLoop's queue.
InitLong == InitWith(0, MaxBytesLong, MaxBytesLong)

\* Streams of one byte value, for what does not depend on the bytes.
InitPlain == InitWith(0, MaxBytes, MaxWrite)

----------------------------------------------------------------------------
(* The caller *)

\* Write(q) is called and runs to its first send on addHash, or returns.
WriteCall ==
    \E q \in SeqsUpTo(inputs, Min(maxWrite, limit - Len(stream))) :
        /\ pc = "ret"
        /\ op' = "Write"
        /\ p' = q
        /\ stream' = stream \o q
        /\ hist' = <<>>
        /\ sync' = IF sync = <<>> THEN sync ELSE SyncWrite(sync, q)
        /\ WriteIter(currentChunk, chunkCap, chunkBuf, 0, q)
        /\ UNCHANGED <<endWithNullChunk, chunkCap, chunkBuf, quitLoop, maxProcs,
                       loopVars, flushers, epoch, closes, started, atCall, bounds>>

\* Line 243: hashLoop receives the channel from addHash (line 165) and
\* appends it (line 166); Write makes a new chunk (line 245) and goes on.
WriteSend ==
    /\ op = "Write"
    /\ pc = "send"
    /\ loopPC = "select"
    /\ AddHashOpen(Len(runningHashes), maxProcs)
    /\ runningHashes' = runningHashes \o pending
    /\ loopPC' = LoopTop(runningHashes', notify)
    /\ chunkCap' = BlockSize
    /\ chunkBuf' = MakeChunk(chunkBuf, epoch, Len(handed))
    /\ WriteIter(<<>>, BlockSize, chunkBuf', i, p)
    /\ UNCHANGED <<endWithNullChunk, quitLoop, maxProcs, notify, hashList,
                   flushers, op, p, stream, epoch, closes, started, sync, hist,
                   atCall, bounds>>

\* Line 248: Write returns i, and the caller has what both engines returned.
WriteReturn ==
    /\ op = "Write"
    /\ pc = "return"
    /\ pc' = "ret"
    /\ p' = <<>>
    /\ i' = 0
    /\ sync' = IF sync = <<>> THEN sync ELSE [sync EXCEPT !.i = 0]
    /\ UNCHANGED <<engineVars, loopVars, flushers, op, pending, stream, handed,
                   epoch, closes, started, hist, atCall, bounds>>

\* Sum(extra) is called: line 252, then it blocks sending on reqCurrentHashes.
\* The local currentChunk of Sum is the engine's, which no one changes while
\* Sum runs; it is read where Sum uses it.  A caller that calls Sum again
\* gives it the same argument.
SumCall ==
    \E extra \in SeqsUpTo(Bytes(0), 1) :
        /\ pc = "ret"
        /\ Len(hist) < MaxSums
        /\ hist # <<>> => extra = hist[1].extra
        /\ op' = "Sum"
        /\ pc' = "req"
        /\ p' = extra
        /\ atCall' = [list |-> hashList, overtaken |-> FALSE]
        /\ UNCHANGED <<engineVars, loopVars, flushers, i, pending, stream, handed,
                       epoch, closes, started, sync, hist, bounds>>

\* Line 254 with line 170: hashLoop takes the request and sets notify.
SumReq ==
    /\ op = "Sum"
    /\ pc = "req"
    /\ loopPC = "select"
    /\ notify' = TRUE
    /\ loopPC' = LoopTop(runningHashes, TRUE)
    /\ pc' = "recv"
    /\ UNCHANGED <<engineVars, hashList, runningHashes, flushers, op, p, i,
                   pending, histVars>>

\* Line 255 with line 161 (or line 180 in a hashLoop that quits): Sum receives
\* the list, computes the digest and returns.
SumRecv ==
    /\ op = "Sum"
    /\ pc = "recv"
    /\ loopPC \in {"sendList", "quitNotify"}
    /\ hashList' = IF loopPC = "sendList" THEN HashListAfterSend(hashList) ELSE hashList
    /\ currentChunk' = SumLeavesChunk(endWithNullChunk, currentChunk, chunkCap)
    /\ LET list == IF loopPC = "sendList" THEN hashList ELSE <<>>
           ret == SumResult(endWithNullChunk, currentChunk, chunkCap, list, p)
       IN hist' = Append(hist, [extra |-> p, ret |-> ret, got |-> list,
                                before |-> atCall.list, after |-> hashList',
                                overtaken |-> atCall.overtaken])
    /\ notify' = IF loopPC = "sendList" THEN FALSE ELSE notify
    /\ loopPC' = IF loopPC = "sendList" THEN "select" ELSE "quitAck"
    /\ pc' = "ret"
    /\ atCall' = <<>>
    /\ UNCHANGED <<endWithNullChunk, chunkCap, chunkBuf, quitLoop, maxProcs,
                   runningHashes, flushers, op, p, i, pending, stream, handed,
                   epoch, closes, started, sync, bounds>>

\* Reset is called (line 189): with a hashLoop running it goes to stop it
\* (line 192), otherwise it makes the channels and starts one (195-201).
ResetCall ==
    /\ pc = "ret"
    /\ epoch < MaxResets
    /\ op' = "Reset"
    /\ p' = <<>>
    /\ i' = 0
    /\ currentChunk' = <<>>
    /\ chunkCap' = BlockSize
    /\ chunkBuf' = MakeChunk(chunkBuf, epoch + 1, 0)
    /\ epoch' = epoch + 1
    /\ stream' = <<>>
    /\ handed' = <<>>
    /\ hist' = <<>>
    /\ sync' = SyncReset
    /\ again' = 0
    /\ IF ResetWaits(quitLoop)
       THEN /\ pc' = "quit"
            /\ UNCHANGED <<quitLoop, loopVars, loops, born>>
       ELSE /\ pc' = "ret"
            /\ quitLoop' = TRUE
            /\ loopPC' = "select"
            /\ notify' = HashLoopStart(hashList).notify
            /\ hashList' = HashLoopStart(hashList).hashList
            /\ runningHashes' = HashLoopStart(hashList).runningHashes
            /\ loops' = loops + 1
            /\ born' = "Reopen"
    /\ UNCHANGED <<endWithNullChunk, maxProcs, flushers, pending, closes, atCall,
                   bounds>>

\* Close is called (line 209): with a hashLoop running it goes to stop it
\* (line 210), otherwise it returns nil.
CloseCall ==
    /\ pc = "ret"
    /\ IF quitLoop THEN closes < MaxCloses ELSE again < MaxCloseAgain
    /\ op' = "Close"
    /\ p' = <<>>
    /\ i' = 0
    /\ hist' = <<>>
    /\ sync' = <<>>
    /\ pc' = IF CloseStops(quitLoop) THEN "quit" ELSE "ret"
    /\ closes' = IF CloseStops(quitLoop) THEN closes + 1 ELSE closes
    /\ again' = IF CloseStops(quitLoop) THEN again ELSE again + 1
    /\ UNCHANGED <<engineVars, loopVars, flushers, pending, stream, handed, epoch,
                   loops, born, atCall, bounds>>

\* Lines 192 and 210 with lines 172-178: hashLoop takes the quit request and
\* starts the goroutine that flushes the running hashes.
QuitSend ==
    /\ op \in {"Reset", "Close"}
    /\ pc = "quit"
    /\ loopPC = "select"
    /\ flushers' = IF runningHashes = <<>> THEN flushers
                   ELSE Append(flushers, [k \in 1..Len(runningHashes) |->
                                              [ready |-> runningHashes[k].ready,
                                               buf |-> runningHashes[k].buf]])
    /\ loopPC' = IF notify THEN "quitNotify" ELSE "quitAck"
    /\ pc' = "ack"
    /\ UNCHANGED <<engineVars, notify, hashList, runningHashes, op, p, i, pending,
                   histVars>>

\* Lines 193 and 211 with lines 182-183: hashLoop answers and returns, and its
\* locals end with it.  Reset starts the next hashLoop (line 201); Close drops
\* quitLoop and the chunk (lines 212-214).
QuitAck ==
    /\ op \in {"Reset", "Close"}
    /\ pc = "ack"
    /\ loopPC = "quitAck"
    /\ pc' = "ret"
    /\ IF op = "Reset"
       THEN /\ loopPC' = "select"
            /\ notify' = HashLoopStart(hashList).notify
            /\ hashList' = HashLoopStart(hashList).hashList
            /\ runningHashes' = HashLoopStart(hashList).runningHashes
            /\ loops' = loops - 1 + 1
            /\ born' = "Reset"
            /\ UNCHANGED <<quitLoop, currentChunk, chunkCap, chunkBuf, stream, handed>>
       ELSE /\ loopPC' = "exited"
            /\ quitLoop' = FALSE
            /\ currentChunk' = ChunkAfterClose(currentChunk, chunkCap, chunkBuf).chunk
            /\ chunkCap' = ChunkAfterClose(currentChunk, chunkCap, chunkBuf).cap
            /\ chunkBuf' = ChunkAfterClose(currentChunk, chunkCap, chunkBuf).buf
            /\ notify' = FALSE
            /\ hashList' = <<>>
            /\ runningHashes' = <<>>
            /\ loops' = loops - 1
            /\ born' = born
            /\ stream' = <<>>
            /\ handed' = <<>>
    /\ UNCHANGED <<endWithNullChunk, maxProcs, flushers, op, p, i, pending, epoch,
                   closes, again, sync, hist, atCall, bounds>>

----------------------------------------------------------------------------
(* The goroutines *)

Done(g) == [g EXCEPT !.ready = TRUE]

\* Line 285: a goroutine in runningHashes has computed its digest.
Md4DoneRunning ==
    \E k \in 1..Len(runningHashes) :
        /\ ~runningHashes[k].ready
        /\ runningHashes' = [runningHashes EXCEPT ![k] = Done(@)]
        /\ atCall' = IF atCall # <<>> /\ \E j \in 1..(k - 1) : ~runningHashes[j].ready
                     THEN [atCall EXCEPT !.overtaken = TRUE]
                     ELSE atCall
        /\ UNCHANGED <<engineVars, loopPC, notify, hashList, flushers, op, pc, p,
                       i, pending, stream, handed, epoch, closes, started, sync,
                       hist, bounds>>

\* Line 285: the goroutine Write has not sent yet has computed its digest.
Md4DonePending ==
    /\ pending # <<>>
    /\ ~pending[1].ready
    /\ pending' = <<Done(pending[1])>>
    /\ UNCHANGED <<engineVars, loopVars, flushers, op, pc, p, i, histVars>>

\* Line 285: a goroutine left to a flusher has computed its digest.
Md4DoneFlushed ==
    \E f \in 1..Len(flushers) : \E k \in 1..Len(flushers[f]) :
        /\ ~flushers[f][k].ready
        /\ flushers' = [flushers EXCEPT ![f][k].ready = TRUE]
        /\ UNCHANGED <<engineVars, loopVars, op, pc, p, i, pending, histVars>>

\* Lines 167-169: hashLoop receives the digest of nextHash.
NextHash ==
    /\ loopPC = "select"
    /\ NextHashOpen(Len(runningHashes), maxProcs)
    /\ LET k == NextHashIndex(runningHashes)
       IN /\ runningHashes[k].ready
          /\ hashList' = hashList \o md4Sum(runningHashes[k].data, <<>>)
          /\ runningHashes' = RunningAfterNext(runningHashes)
    /\ loopPC' = LoopTop(runningHashes', notify)
    /\ UNCHANGED <<engineVars, notify, flushers, op, pc, p, i, pending, histVars>>

\* Lines 175-177: a flusher receives from its channels in order, and ends.
Flush ==
    \E f \in 1..Len(flushers) :
        /\ FlushReceives(flushers[f])
        /\ flushers' = IF Len(flushers[f]) = 1
                       THEN SubSeq(flushers, 1, f - 1) \o SubSeq(flushers, f + 1, Len(flushers))
                       ELSE [flushers EXCEPT ![f] = Tail(@)]
        /\ UNCHANGED <<engineVars, loopVars, op, pc, p, i, pending, histVars>>

Next ==
    \/ WriteCall
    \/ WriteSend
    \/ WriteReturn
    \/ SumCall
    \/ SumReq
    \/ SumRecv
    \/ ResetCall
    \/ CloseCall
    \/ QuitSend
    \/ QuitAck
    \/ Md4DoneRunning
    \/ Md4DonePending
    \/ Md4DoneFlushed
    \/ NextHash
    \/ Flush

Spec == Init /\ [][Next]_vars

SpecLong == InitLong /\ [][Next]_vars

\* The Go scheduler runs every goroutine that can take a step, and a send and
\* a receive that are both ready meet.  No fairness is asked of the caller's
\* calls: the caller may stop calling.
Fairness ==
    /\ WF_vars(WriteSend)
    /\ WF_vars(WriteReturn)
    /\ WF_vars(SumReq)
    /\ WF_vars(SumRecv)
    /\ WF_vars(QuitSend)
    /\ WF_vars(QuitAck)
    /\ WF_vars(Md4DoneRunning)
    /\ WF_vars(Md4DonePending)
    /\ WF_vars(Md4DoneFlushed)
    /\ WF_vars(NextHash)
    /\ WF_vars(Flush)

LiveSpec == SpecLong /\ Fairness

SpecPlain == InitPlain /\ [][Next]_vars

LivePlain == SpecPlain /\ Fairness

----------------------------------------------------------------------------
(* What the claims are stated with *)

CeilDiv(n, d) == (n + d - 1) \div d

IsPrefix(s, t) == Len(s) <= Len(t) /\ s = SubSeq(t, 1, Len(s))

\* The k-th chunk of the byte stream s.
RefChunk(s, k) == SubSeq(s, (k - 1) * BlockSize + 1, Min(k * BlockSize, Len(s)))

\* The digests of the first m chunks of s, concatenated.
RECURSIVE RefDigests(_, _)
RefDigests(s, m) ==
    IF m = 0 THEN <<>> ELSE RefDigests(s, m - 1) \o md4(RefChunk(s, m))

\* The two-level digest of the byte stream s, as C1 states it.
RefSum(null, s) ==
    LET n == Len(s)
        full == n \div BlockSize
    IN IF null
       THEN IF n < BlockSize
            THEN md4(s)
            ELSE md4(RefDigests(s, full) \o md4(SubSeq(s, full * BlockSize + 1, n)))
       ELSE IF n <= BlockSize
            THEN md4(s)
            ELSE md4(RefDigests(s, CeilDiv(n, BlockSize)))

\* The digests of a sequence of chunks, concatenated in its order.
RECURSIVE DigestsOf(_)
DigestsOf(chunks) ==
    IF chunks = <<>> THEN <<>>
    ELSE DigestsOf(SubSeq(chunks, 1, Len(chunks) - 1)) \o md4(chunks[Len(chunks)])

\* The Sum calls that have returned since the last other call.
Sums == 1..Len(hist)

\* Sum takes the fold path: the list is not empty after the boundary step.
FoldPath(null, chunk, list) == (null /\ Len(chunk) = BlockSize) \/ Len(list) > 0

\* The digest list Sum folds, by the decision table of Sum.
Folded(null, chunk, list) ==
    IF null /\ Len(chunk) = BlockSize THEN list \o md4(chunk) \o md4(<<>>)
    ELSE IF null \/ Len(chunk) > 0 THEN list \o md4(chunk)
    ELSE list

\* No Reset is stopping the previous hashLoop: the histories and hashLoop's
\* locals are of the same generation.
Settled == ~(op = "Reset" /\ pc # "ret")

----------------------------------------------------------------------------
(* The claims *)

\* C1: Sum(nil) is the two-level digest of the bytes written since the engine
\* was made or Reset: in current mode digest(stream) up to BlockSize bytes and
\* the digest of the ceil(n/BlockSize) chunk digests beyond; in legacy mode
\* digest(stream) below BlockSize bytes, and from there the digest of the
\* floor(n/BlockSize) full chunks' digests and the digest of the rest (of the
\* empty buffer, for a multiple of BlockSize).
C1_SumIsTwoLevelDigest ==
    \A k \in Sums :
        hist[k].extra = <<>> => hist[k].ret = RefSum(endWithNullChunk, stream)

\* A legacy engine has summed a stream of exactly two chunks.
C1_Witness ==
    /\ endWithNullChunk
    /\ Len(stream) = 2 * BlockSize
    /\ \E k \in Sums : hist[k].extra = <<>>

\* C2: on the same stream an engine of the other mode returns the same
\* Sum(nil) when the length is below BlockSize or no multiple of it, and
\* another one when the length is a positive multiple of BlockSize.
C2_ModesDifferOnlyOnBoundary ==
    \A k \in Sums :
        hist[k].extra = <<>> =>
            LET n == Len(stream)
                other == SerialSum(~endWithNullChunk, stream, <<>>)
            IN IF n > 0 /\ n % BlockSize = 0
               THEN hist[k].ret # other
               ELSE hist[k].ret = other

\* A current-mode engine has summed a stream of exactly one chunk.
C2_Witness ==
    /\ ~endWithNullChunk
    /\ Len(stream) = BlockSize
    /\ \E k \in Sums : hist[k].extra = <<>>

\* C3, as stated: two Sum calls in a row return the same bytes, and the
\* digest list hashLoop holds is the same after the first Sum as before it.
C3_ListSameAfterFirstSum ==
    /\ \A j, k \in Sums : hist[j].extra = hist[k].extra => hist[j].ret = hist[k].ret
    /\ \A k \in Sums : hist[k].after = hist[k].before

\* C3, amended: two Sum calls in a row return the same bytes; after the first
\* Sum hashLoop holds the list it held before, followed by the digests of the
\* chunks that were in flight (the digests of all the chunks handed off); the
\* second Sum leaves that list as the first left it.
C3_SumIsRepeatable ==
    /\ \A j, k \in Sums : hist[j].extra = hist[k].extra => hist[j].ret = hist[k].ret
    /\ \A k \in Sums :
          /\ IsPrefix(hist[k].before, hist[k].after)
          /\ hist[k].after = DigestsOf(handed)
    /\ \A k \in Sums \ {1} :
          /\ hist[k].before = hist[k - 1].after
          /\ hist[k].after = hist[k].before

\* Sum was called twice, the first time with chunks still in flight.
C3_Witness ==
    /\ Len(hist) = 2
    /\ hist[1].before # hist[1].after
    /\ hist[2].ret = hist[1].ret

\* C4: after a Reset, Sum(nil) is what an engine of the same mode, run on its
\* own, returns for the bytes written since; no digest goroutine of before
\* the Reset is in hashLoop's queue, and its list holds digests of chunks
\* handed off since the Reset only; the boundary mode never changes.
C4_ResetStartsAfresh ==
    /\ [](epoch > 0 /\ Settled =>
            /\ \A k \in Sums :
                  /\ hist[k].extra = <<>> =>
                        hist[k].ret = SerialSum(endWithNullChunk, stream, <<>>)
                  /\ hist[k].got = DigestsOf(handed)
            /\ \A k \in 1..Len(runningHashes) : runningHashes[k].epoch = epoch
            /\ IsPrefix(hashList, DigestsOf(handed)))
    /\ [][endWithNullChunk' = endWithNullChunk]_vars

\* Reset was called with a chunk in flight, which is still being flushed
\* after a later Write has handed off a chunk and Sum has returned.
C4_Witness ==
    /\ epoch > 0
    /\ flushers # <<>>
    /\ handed # <<>>
    /\ \E k \in Sums : hist[k].extra = <<>>

\* C5, as stated: on the fold path Sum(extra) returns exactly Size bytes, the
\* digest of the concatenated digest list followed by extra.
C5_DigestOverListAndExtra ==
    \A k \in Sums :
        FoldPath(endWithNullChunk, currentChunk, hist[k].got) =>
            /\ Len(hist[k].ret) = Size
            /\ hist[k].ret =
                   md4(Folded(endWithNullChunk, currentChunk, hist[k].got) \o hist[k].extra)

\* C5, amended: on the fold path Sum(extra) returns extra followed by the
\* Size bytes of the digest of the concatenated digest list, Len(extra) + Size
\* bytes in all, in the concurrent and in the synchronous engine.
C5_ExtraThenDigestOfList ==
    \A k \in Sums :
        FoldPath(endWithNullChunk, currentChunk, hist[k].got) =>
            LET want == hist[k].extra
                            \o md4(Folded(endWithNullChunk, currentChunk, hist[k].got))
            IN /\ hist[k].ret = want
               /\ Len(hist[k].ret) = Len(hist[k].extra) + Size
               /\ SyncSum(endWithNullChunk, currentChunk, hist[k].got, hist[k].extra) = want

\* Sum was given a non-empty extra and took the fold path.
C5_Witness ==
    \E k \in Sums :
        /\ hist[k].extra # <<>>
        /\ FoldPath(endWithNullChunk, currentChunk, hist[k].got)

\* C6: on the single-chunk path Sum(extra) treats extra as the fold path
\* does: it returns extra followed by the digest of the current chunk.
C6_SingleChunkPathUsesExtra ==
    \A k \in Sums :
        ~FoldPath(endWithNullChunk, currentChunk, hist[k].got) =>
            hist[k].ret = md4Sum(currentChunk, hist[k].extra)

\* C7: hashLoop's list is the digests of the chunks Write handed off, in that
\* order, whatever the order in which the goroutines finish, and so is the
\* list Sum receives; hashLoop retires the head of its queue only.
C7_ListInSubmissionOrder ==
    /\ [](Settled =>
            /\ Len(hashList) % Size = 0
            /\ Len(hashList) \div Size <= Len(handed)
            /\ hashList = DigestsOf(SubSeq(handed, 1, Len(hashList) \div Size))
            /\ \A k \in Sums : hist[k].got = DigestsOf(handed))
    /\ [][Len(hashList') > Len(hashList) =>
            /\ runningHashes # <<>>
            /\ runningHashes[1].ready
            /\ hashList' = hashList \o md4(runningHashes[1].data)
            /\ runningHashes' = Tail(runningHashes)]_vars

\* Sum has received the digests of two different chunks, the second of which
\* was computed before the first.
C7_Witness ==
    \E k \in Sums :
        /\ hist[k].overtaken
        /\ Len(handed) = 2
        /\ handed[1] # handed[2]
        /\ hist[k].got = md4(handed[1]) \o md4(handed[2])

\* C8: the list Sum receives holds one digest of Size bytes for each chunk
\* handed off since the last Reset, and hashLoop answers a request only with
\* nothing left in its queue.
C8_SumWaitsForAllChunks ==
    Settled =>
        /\ \A k \in Sums : Len(hist[k].got) = Size * Len(handed)
        /\ loopPC = "sendList" => runningHashes = <<>> /\ pending = <<>>
        /\ hist # <<>> => runningHashes = <<>> /\ pending = <<>>

\* Sum was called with two chunks handed off and some of them in flight.
C8_Witness ==
    \E k \in Sums :
        /\ Len(handed) = 2
        /\ hist[k].before # hist[k].got

\* C9: on an engine that is not closed every Write returns, with len(p), and
\* every Sum returns.
C9_WriteAndSumReturn ==
    /\ [](op = "Write" /\ pc = "return" => i = Len(p))
    /\ (op = "Write" /\ pc = "send" /\ quitLoop) ~> (op = "Write" /\ pc = "return")
    /\ (op = "Write" /\ pc = "return") ~> (op = "Write" /\ pc = "ret")
    /\ (op = "Sum" /\ pc \in {"req", "recv"} /\ quitLoop) ~> (op = "Sum" /\ pc = "ret")

\* A Write is returning that handed off more chunks than hashLoop's queue
\* takes.
C9_Witness ==
    /\ op = "Write"
    /\ pc = "return"
    /\ quitLoop
    /\ Len(p) > BlockSize * (2 * maxProcs + 1)

\* C10, as stated: at most 2 x GOMAXPROCS chunks are in flight: handed off,
\* their digest goroutine started, their digest not yet in hashLoop's list.
C10_AtMostCapInFlight == Len(runningHashes) + Len(pending) <= 2 * maxProcs

\* C10, amended: hashLoop's queue holds at most 2 x GOMAXPROCS chunks and
\* takes one more only below that; with the chunk whose goroutine Write has
\* started before its send on addHash, at most 2 x GOMAXPROCS + 1 chunks
\* handed off since the last Reset are in flight.
C10_QueueAtMostCap ==
    /\ [](/\ Len(runningHashes) <= 2 * maxProcs
          /\ Len(pending) <= 1
          /\ Len(runningHashes) + Len(pending) <= 2 * maxProcs + 1)
    /\ [][Len(runningHashes') > Len(runningHashes) =>
            Len(runningHashes) < 2 * maxProcs]_vars

\* Write has started one more goroutine and is blocked on a full queue.
C10_Witness ==
    /\ op = "Write"
    /\ pc = "send"
    /\ pending # <<>>
    /\ Len(runningHashes) = 2 * maxProcs

\* C11: the Close that finds a hashLoop stops it and releases the chunk: the
\* engine is closed only with its hashLoop returned and a nil chunk, and
\* only a Close closes it.  A Close on the closed engine returns at once and
\* changes nothing of the engine, of hashLoop or of the goroutines.
C11_CloseTwiceIsSafe ==
    /\ [](~quitLoop =>
            /\ loopPC = "exited"
            /\ loops = 0
            /\ currentChunk = <<>>
            /\ chunkCap = 0
            /\ chunkBuf = NilBuf)
    /\ [][quitLoop /\ ~quitLoop' => op = "Close" /\ pc = "ack" /\ pc' = "ret"]_vars
    /\ [][~quitLoop /\ (closes' # closes \/ again' > again) =>
            /\ op' = "Close"
            /\ pc' = "ret"
            /\ UNCHANGED <<engineVars, loopVars, flushers, pending, loops,
                           closes>>]_vars

\* Close has returned for the third time in a row, with goroutines of before
\* the first still being flushed.
C11_Witness ==
    /\ op = "Close"
    /\ pc = "ret"
    /\ ~quitLoop
    /\ again = 2
    /\ flushers # <<>>

\* C12: Reset on a closed engine returns at once, having started one
\* hashLoop, the only one, with an empty list and an empty queue, and made
\* an empty chunk of BlockSize; from there every Write returns len(p) and
\* every Sum what an engine of the same mode, new and run on its own, returns
\* for the bytes written since.
C12_ResetReopens ==
    /\ [][~quitLoop /\ epoch' # epoch =>
            /\ pc' = "ret"
            /\ quitLoop'
            /\ loops = 0 /\ loops' = 1
            /\ born' = "Reopen"
            /\ loopPC' = "select"
            /\ ~notify' /\ hashList' = <<>> /\ runningHashes' = <<>>
            /\ currentChunk' = <<>> /\ chunkCap' = BlockSize
            /\ pending' = <<>>
            /\ endWithNullChunk' = endWithNullChunk]_vars
    /\ [](born = "Reopen" /\ quitLoop /\ Settled =>
            /\ loops = 1
            /\ hashList = DigestsOf(SubSeq(handed, 1, Len(hashList) \div Size))
            /\ op = "Write" /\ pc = "return" => i = Len(p)
            /\ \A k \in Sums :
                  hist[k].ret = SerialSum(endWithNullChunk, stream, hist[k].extra))

\* An engine closed with a chunk in flight and Reset has been given more than
\* two chunks, and Sum has returned.
C12_Witness ==
    /\ born = "Reopen"
    /\ quitLoop
    /\ flushers # <<>>
    /\ Len(stream) > 2 * BlockSize
    /\ hist # <<>>

\* C13: given the same Write, Sum and Reset calls, the synchronous engine
\* and the concurrent engine return the same: every Sum of the concurrent
\* engine returns what Sum of the synchronous engine returns in the state its
\* Writes have left it in, and every Write the same count, len(p), however
\* the goroutines interleave.
C13_SyncAndConcurrentAgree ==
    sync # <<>> =>
        /\ \A k \in Sums :
              hist[k].ret = SyncSum(endWithNullChunk, sync.currentChunk,
                                    sync.hashList, hist[k].extra)
        /\ op = "Write" /\ pc = "return" => i = sync.i /\ i = Len(p)
        /\ pc \in {"ret", "return", "req", "recv"} /\ Settled =>
              /\ sync.currentChunk = currentChunk
              /\ sync.hashList = DigestsOf(handed)

\* After a Reset both engines were given two different chunks and more, the
\* second chunk's digest was computed before the first's, and Sum has
\* returned with an argument.
C13_Witness ==
    /\ sync # <<>>
    /\ epoch > 0
    /\ Len(sync.hashList) = 2 * Size
    /\ Len(handed) = 2
    /\ handed[1] # handed[2]
    /\ \E k \in Sums : hist[k].overtaken /\ hist[k].extra # <<>>

\* Write is not in its loop, and no Reset or Close is stopping hashLoop: the
\* engine is between operations, or in Sum, or Write is about to return.
AtRest == quitLoop /\ pc \in {"ret", "return", "req", "recv"}

\* C14: a chunk is handed off only when it is exactly full and at least one
\* more byte of the argument is pending.  With n bytes written since the last
\* Reset the chunks handed off are none for n = 0 and ceil(n/BlockSize) - 1
\* otherwise; the current chunk holds the other n - BlockSize x handedOff
\* bytes, never more than BlockSize, and at least one when n > 0.  The same
\* holds of the synchronous engine.
C14_WaitOneByte ==
    /\ [](Len(currentChunk) <= BlockSize)
    /\ [](AtRest =>
            LET n == Len(stream)
                handedOff == IF n = 0 THEN 0 ELSE CeilDiv(n, BlockSize) - 1
            IN /\ Len(handed) = handedOff
               /\ Len(currentChunk) = n - BlockSize * handedOff
               /\ n > 0 => currentChunk # <<>>
               /\ sync # <<>> =>
                     /\ Len(sync.hashList) = Size * handedOff
                     /\ Len(sync.currentChunk) = n - BlockSize * handedOff)
    /\ [][quitLoop /\ Len(handed') > Len(handed) =>
            /\ Len(handed') = Len(handed) + 1
            /\ Len(handed'[Len(handed')]) = BlockSize
            /\ currentChunk' = handed'[Len(handed')]
            /\ i' < Len(p')
            /\ pc' = "send"]_vars

\* A stream that ends on the second chunk boundary has left one chunk handed
\* off and a full current chunk.
C14_Witness ==
    /\ AtRest
    /\ pc = "ret"
    /\ Len(stream) = 2 * BlockSize
    /\ Len(handed) = 1
    /\ Len(currentChunk) = BlockSize

\* The digests in hashLoop's list.
Retired == Len(hashList) \div Size

\* C15: between operations the bytes written since the last Reset are
\* BlockSize x (digests in the list + chunks in flight) + the length of the
\* current chunk.  Every chunk handed off has BlockSize bytes and is counted
\* once: the first Retired of them have their digest in the list, and the
\* others are, in order, the goroutines of hashLoop's queue and then the one
\* Write has yet to send.
C15_ByteAccounting ==
    /\ quitLoop /\ pc = "ret" =>
          /\ pending = <<>>
          /\ Len(stream) = BlockSize * (Retired + Len(runningHashes)) + Len(currentChunk)
    /\ quitLoop /\ Settled =>
          LET inFlight == runningHashes \o pending
          IN /\ \A k \in 1..Len(handed) : Len(handed[k]) = BlockSize
             /\ Len(hashList) = Size * Retired
             /\ hashList = DigestsOf(SubSeq(handed, 1, Retired))
             /\ Retired + Len(inFlight) = Len(handed)
             /\ \A k \in 1..Len(inFlight) :
                   /\ inFlight[k].idx = Retired + k
                   /\ inFlight[k].data = handed[Retired + k]
                   /\ inFlight[k].epoch = epoch

\* Between two operations one chunk's digest is in the list, another chunk is
\* in flight, and the current chunk holds a byte.
C15_Witness ==
    /\ quitLoop
    /\ pc = "ret"
    /\ Retired = 1
    /\ Len(runningHashes) = 1
    /\ Len(currentChunk) = 1

RECURSIVE Flat(_)
Flat(fs) == IF fs = <<>> THEN <<>> ELSE fs[1] \o Flat(Tail(fs))

\* The arrays of the goroutines that have not ended, one entry for each
\* goroutine.  The queue of a hashLoop that has taken the quit request is the
\* one its flushing goroutine has.
Goroutines ==
    LET queue == IF loopPC \in {"quitNotify", "quitAck"} THEN <<>> ELSE runningHashes
    IN [k \in 1..Len(pending) |-> pending[k].buf]
           \o [k \in 1..Len(queue) |-> queue[k].buf]
           \o [k \in 1..Len(Flat(flushers)) |-> Flat(flushers)[k].buf]

\* C16: the array of a chunk handed to a digest goroutine is that
\* goroutine's alone.  No two goroutines hold the same array.  The engine's
\* currentChunk is a slice of an array no goroutine holds, except while Write
\* is blocked in the send of line 243, where it is the array of the goroutine
\* it is sending and Write does not touch it; so Write appends, Sum reads and
\* Reset and Close replace a chunk no goroutine holds.  The array Write goes
\* on with after a hand-off, like the one Reset makes, is another one than
\* the engine's and than any a goroutine holds.
C16_ChunkHandedOverNotShared ==
    /\ [](\A j, k \in 1..Len(Goroutines) : j # k => Goroutines[j] # Goroutines[k])
    /\ [](pc # "send" => chunkBuf \notin HeldBufs)
    /\ [](pc = "send" => pending # <<>> /\ pending[1].buf = chunkBuf)
    /\ [][currentChunk' # currentChunk /\ currentChunk' # <<>> =>
            IF pc = "send" THEN chunkBuf' \notin HeldBufs \cup {chunkBuf}
            ELSE chunkBuf' = chunkBuf /\ chunkBuf \notin HeldBufs]_vars
    /\ [][chunkBuf' # chunkBuf /\ chunkBuf' # NilBuf =>
            chunkBuf' \notin HeldBufs \cup {chunkBuf}]_vars

\* Write has gone on into a new chunk and is returning, and the goroutine
\* of the chunk it handed off has not computed its digest.
C16_Witness ==
    /\ op = "Write"
    /\ pc = "return"
    /\ currentChunk # <<>>
    /\ \E k \in 1..Len(runningHashes) :
          /\ ~runningHashes[k].ready
          /\ runningHashes[k].idx = Len(handed)

\* The arrays of the goroutines left to the flushing goroutines, which name
\* them.
Flushed == BufsOf(Flat(flushers))

\* The names an array can have.
Arrays == (0..MaxResets) \X (0..(MaxBytes \div BlockSize))

\* C17: a Reset or Close that stops hashLoop with chunks in flight returns
\* without waiting for their digests: hashLoop is at its select when the quit
\* request is sent and at its answer when Reset or Close receives it, and the
\* call returns.  Every goroutine left in flight then is received from by
\* the flushing goroutine, after it has computed its digest, and ends.
C17_TeardownDrains ==
    /\ [](op \in {"Reset", "Close"} =>
            /\ pc = "quit" => loopPC = "select"
            /\ pc = "ack" => loopPC = "quitAck")
    /\ (op \in {"Reset", "Close"} /\ pc \in {"quit", "ack"}) ~> (pc = "ret")
    /\ [][Len(Flat(flushers')) < Len(Flat(flushers)) =>
            \E f \in 1..Len(flushers) :
                /\ flushers[f][1].ready
                /\ Flushed' = Flushed \ {flushers[f][1].buf}]_vars
    /\ [](Flushed \subseteq Arrays)
    /\ \A b \in Arrays : (b \in Flushed) ~> (b \notin HeldBufs)

\* Reset has returned and started a new hashLoop while two chunks that were
\* in flight have not had their digests computed.
C17_Witness ==
    /\ op = "Reset"
    /\ pc = "ret"
    /\ loopPC = "select"
    /\ \E f \in 1..Len(flushers) :
          /\ Len(flushers[f]) = 2
          /\ \A k \in 1..2 : ~flushers[f][k].ready

\* C18: however the bytes written since the last Reset were cut into Write
\* calls, the engine has handed off the chunks, holds the current chunk and
\* returns from Sum what an engine of the same mode does that was given all
\* of them in one Write; so does the synchronous engine.
C18_SplitDoesNotMatter ==
    AtRest =>
        LET one == SerialWrite(<<>>, <<>>, 0, stream)
            syncOne == SyncWrite(SyncReset, stream)
        IN /\ currentChunk = one.chunk
           /\ Len(handed) = Len(one.list) \div Size
           /\ DigestsOf(handed) = one.list
           /\ \A k \in Sums :
                 hist[k].ret = SerialSum(endWithNullChunk, stream, hist[k].extra)
           /\ sync # <<>> =>
                 /\ sync.currentChunk = syncOne.currentChunk
                 /\ sync.hashList = syncOne.hashList

\* A Write is returning that was given bytes of more than one chunk, after
\* Writes that ended exactly on a chunk boundary.
C18_Witness ==
    /\ AtRest
    /\ op = "Write"
    /\ pc = "return"
    /\ Len(p) > BlockSize
    /\ Len(stream) > Len(p)
    /\ (Len(stream) - Len(p)) % BlockSize = 0

\* C19: Sum changes nothing of the engine, also in legacy mode with the
\* current chunk exactly full.  No step of Sum changes d.currentChunk; the
\* step in which Sum receives the list and folds leaves hashLoop's list as it
\* is, and that list holds the digests of the chunks handed off and no digest
\* of the current chunk or of the empty chunk.  So a Sum returns what an
\* engine returns that was given the same bytes and never asked for a Sum
\* before.
C19_SumLeavesEngine ==
    /\ [][op' = "Sum" =>
            /\ currentChunk' = currentChunk
            /\ chunkCap' = chunkCap
            /\ chunkBuf' = chunkBuf
            /\ endWithNullChunk' = endWithNullChunk
            /\ sync' = sync]_vars
    /\ [][op = "Sum" /\ pc = "recv" /\ pc' = "ret" =>
            /\ hashList' = hashList
            /\ runningHashes' = runningHashes]_vars
    /\ [](\A k \in Sums :
            /\ hist[k].after = hist[k].got
            /\ hist[k].after = DigestsOf(handed)
            /\ hist[k].ret = SerialSum(endWithNullChunk, stream, hist[k].extra))
    /\ [](AtRest /\ op = "Sum" /\ pc = "ret" =>
            /\ hashList = DigestsOf(handed)
            /\ currentChunk = SerialWrite(<<>>, <<>>, 0, stream).chunk)

\* In legacy mode Sum has returned with the current chunk exactly full and
\* another chunk handed off before.
C19_Witness ==
    /\ endWithNullChunk
    /\ op = "Sum"
    /\ pc = "ret"
    /\ Len(currentChunk) = BlockSize
    /\ handed # <<>>
    /\ hist # <<>>

\* C20: on an engine that is closed and not Reset, a Sum blocks in its send
\* on reqCurrentHashes and a Write of at least one byte in its send on
\* addHash, having copied nothing, and neither ever leaves it: no hashLoop
\* receives.  A Write of no bytes returns 0.
C20_ClosedEngineBlocks ==
    /\ [][~quitLoop /\ pc = "ret" /\ pc' # "ret" =>
            \/ op' = "Sum" /\ pc' = "req"
            \/ op' = "Write" /\ p' # <<>> /\ pc' = "send" /\ i' = 0
            \/ op' = "Write" /\ p' = <<>> /\ pc' = "return" /\ i' = 0
            \/ op' = "Reset"]_vars
    /\ [][~quitLoop /\ pc \in {"req", "send"} =>
            /\ pc' = pc
            /\ op' = op
            /\ ~quitLoop'
            /\ loopPC' = "exited"]_vars
    /\ [](~quitLoop /\ pc = "return" => op = "Write" /\ p = <<>> /\ i = 0)
    /\ (~quitLoop /\ pc = "return") ~> (~quitLoop /\ op = "Write" /\ pc = "ret")

\* On the closed engine a Write of two bytes is blocked in its send, and the
\* goroutine it started has computed its digest.
C20_Witness ==
    /\ ~quitLoop
    /\ op = "Write"
    /\ pc = "send"
    /\ Len(p) = 2
    /\ pending # <<>>
    /\ pending[1].ready

====
